---- MODULE Spec2Model ----
(***************************************************************************)
(* ApiChecker: a probe runner that launches numChecks HTTP probes, one per *)
(* goroutine, collects their CheckResults through a buffered channel and   *)
(* returns them.  src/main.go holds two programs:                          *)
(*   variant "signal"  : lines 1-119, runTests listens on a stop channel   *)
(*   variant "context" : lines 121-262, runTests listens on ctx.Done()     *)
(* Probe p (1..numChecks) is the goroutine launched at loop index p-1.     *)
(***************************************************************************)
EXTENDS Integers, Sequences, FiniteSets, TLC

\* Largest value of the -n flag explored.
MaxChecks == 3

\* Largest value of the -n flag explored when checking termination.
MaxLiveChecks == 2

\* http.StatusOK
StatusOK == 200

\* Status codes a transport response may carry.
StatusCodes == {200, 500}

Variants == {"signal", "context"}

Probes == 1..MaxChecks

\* What http.Get hands back: a transport error, or a response with a status.
Responses ==
  {[err |-> TRUE, status |-> 0]} \cup {[err |-> FALSE, status |-> s] : s \in StatusCodes}

\* resp[p] before http.Get of probe p has returned.
NoResponse == [err |-> FALSE, status |-> 0]

\* The reporting stage before it has done anything.  divisor is -1 until the
\* percentage has been computed; hundredths is the percentage as %.2f prints it,
\* in hundredths of a percent; nan says that the printed value is NaN.
NoReport ==
  [printed |-> FALSE, divisor |-> -1, nan |-> FALSE, hundredths |-> 0,
   writeAttempted |-> FALSE, written |-> FALSE, file |-> <<>>, logs |-> {}]

VARIABLES
  variant,        \* which of the two programs runs
  numChecks,      \* the -n flag
  opc,            \* position of the orchestrator (runTests)
  i,              \* loop variable of runTests
  wg,             \* counter of the sync.WaitGroup
  results,        \* buffered contents of the results channel (FIFO)
  closed,         \* the results channel has been closed
  testResult,     \* TestResult.Results built by the drain loop
  ppc,            \* position of each performCheck goroutine
  resp,           \* what http.Get returned to each probe
  ctxDone,        \* ctx.Done() is closed (context variant)
  stopBuf,        \* signals buffered in runTests' stop channel (signal variant)
  crashed,        \* the process died of an unrecovered panic
  launchCancelled,\* history: ctx was already done when probe p was launched
  retCancelled,   \* history: ctx was already done when http.Get of p returned
  observed,       \* history: the orchestrator took the ctx.Done() (or stop) branch
  obsAllWritten,  \* history: at that moment every launched probe had written and finished
  sentLog,        \* history: the CheckResults sent on the channel, in the order of the sends
  sleeps,         \* history: number of time.Sleep(interval) calls that have ended
  rpc,            \* position in the reporting stage that follows the drain loop
  report          \* what the reporting stage has printed, logged and written

vars == <<variant, numChecks, opc, i, wg, results, closed, testResult, ppc, resp,
          ctxDone, stopBuf, crashed, launchCancelled, retCancelled, observed,
          obsAllWritten, sentLog, sleeps, rpc, report>>

orchVars == <<opc, i, wg, closed, testResult>>
histVars == <<launchCancelled, retCancelled, observed, obsAllWritten>>
repVars == <<rpc, report>>

----------------------------------------------------------------------------
\* Pure helpers

\* Mutant of Success: any 2xx-or-above response counts as success.
SuccessAnyResponse(r) == r.status >= StatusOK

\* success := resp.StatusCode == http.StatusOK
Success(r) == r.status = StatusOK

\* The CheckResult a probe sends: false on a transport error, Success otherwise.
\* The probe field is a tag that identifies the sender; the program has no such field.
ResultOf(p, r) == [probe |-> p, Success |-> IF r.err THEN FALSE ELSE Success(r)]

\* Mutant of ChanCap: an unbuffered channel.
ChanCapUnbuffered(n) == 0

\* Mutant of ChanCap: the buffer is one slot short.
ChanCapShort(n) == IF n > 0 THEN n - 1 ELSE 0

\* make(chan CheckResult, numChecks)
ChanCap(n) == n

\* Mutant of LoopCond: the loop stops one iteration early.
LoopCondShort(k, n) == k < n - 1

\* i < numChecks
LoopCond(k, n) == k < n

RECURSIVE collectFrom(_, _)
collectFrom(ch, acc) ==
  IF ch = <<>> THEN acc ELSE collectFrom(Tail(ch), Append(acc, Head(ch)))

\* Mutant of collectResults: the first received result is not appended.
collectResultsSkipFirst(ch) == IF ch = <<>> THEN <<>> ELSE collectFrom(Tail(ch), <<>>)

\* for result := range results { append } over a closed channel
collectResults(ch) == collectFrom(ch, <<>>)

Launched == {p \in Probes : ppc[p] # "idle"}

\* Probe p has sent a result (it sits in the channel or in the TestResult).
Wrote(p) ==
  \/ \E k \in 1..Len(results) : results[k].probe = p
  \/ \E k \in 1..Len(testResult) : testResult[k].probe = p

----------------------------------------------------------------------------
Init ==
  /\ variant \in Variants
  /\ numChecks \in 0..MaxChecks
  /\ opc = "loop"
  /\ i = 0
  /\ wg = 0
  /\ results = <<>>
  /\ closed = FALSE
  /\ testResult = <<>>
  /\ ppc = [p \in Probes |-> "idle"]
  /\ resp = [p \in Probes |-> NoResponse]
  /\ ctxDone = FALSE
  /\ stopBuf = 0
  /\ crashed = FALSE
  /\ launchCancelled = [p \in Probes |-> FALSE]
  /\ retCancelled = [p \in Probes |-> FALSE]
  /\ observed = FALSE
  /\ obsAllWritten = FALSE
  /\ sentLog = <<>>
  /\ sleeps = 0
  /\ rpc = "none"
  /\ report = NoReport

----------------------------------------------------------------------------
\* The environment

\* A SIGINT/SIGTERM lands in runTests' stop channel (capacity 1).
NotifyStop ==
  /\ variant = "signal"
  /\ ~crashed
  /\ stopBuf = 0
  /\ stopBuf' = 1
  /\ UNCHANGED <<variant, numChecks, sentLog, sleeps, repVars, orchVars, results, ppc, resp, ctxDone, crashed, histVars>>

\* main's goroutine receives the signal and calls cancel().
MainSignalHandler ==
  /\ variant = "context"
  /\ ~crashed
  /\ ~ctxDone
  /\ ctxDone' = TRUE
  /\ UNCHANGED <<variant, numChecks, sentLog, sleeps, repVars, orchVars, results, ppc, resp, stopBuf, crashed, histVars>>

----------------------------------------------------------------------------
\* The orchestrator: runTests

\* Loop head with i < numChecks: wg.Add(1); go performCheck(...)
Launch ==
  /\ opc = "loop"
  /\ ~crashed
  /\ LoopCond(i, numChecks)
  /\ wg' = wg + 1
  /\ ppc' = [ppc EXCEPT ![i + 1] = "get"]
  /\ launchCancelled' = [launchCancelled EXCEPT ![i + 1] = ctxDone]
  /\ opc' = IF variant = "context" THEN "select" ELSE "sleep"
  /\ UNCHANGED <<variant, numChecks, sentLog, sleeps, repVars, i, results, closed, testResult, resp, ctxDone,
                 stopBuf, crashed, retCancelled, observed, obsAllWritten>>

\* Loop head with i >= numChecks: fall through to wg.Wait()
LoopExit ==
  /\ opc = "loop"
  /\ ~crashed
  /\ ~LoopCond(i, numChecks)
  /\ opc' = "wait"
  /\ UNCHANGED <<variant, numChecks, sentLog, sleeps, repVars, i, wg, results, closed, testResult, ppc, resp,
                 ctxDone, stopBuf, crashed, histVars>>

\* Mutant of ObserveCancel: the branch closes the channel before waiting.
ObserveCancelCloseFirst ==
  /\ opc = "select"
  /\ variant = "context"
  /\ ~crashed
  /\ ctxDone
  /\ opc' = "stopclose"
  /\ observed' = TRUE
  /\ obsAllWritten' = \A p \in Launched : ppc[p] = "done" /\ Wrote(p)
  /\ UNCHANGED <<variant, numChecks, sentLog, sleeps, repVars, i, wg, results, closed, testResult, ppc, resp,
                 ctxDone, stopBuf, crashed, launchCancelled, retCancelled>>

\* context variant, case <-ctx.Done(): go on to wg.Wait(); close; collect
ObserveCancel ==
  /\ opc = "select"
  /\ variant = "context"
  /\ ~crashed
  /\ ctxDone
  /\ opc' = "wait"
  /\ observed' = TRUE
  /\ obsAllWritten' = \A p \in Launched : ppc[p] = "done" /\ Wrote(p)
  /\ UNCHANGED <<variant, numChecks, sentLog, sleeps, repVars, i, wg, results, closed, testResult, ppc, resp,
                 ctxDone, stopBuf, crashed, launchCancelled, retCancelled>>

\* Mutant of SelectDefault: the default branch goes on to the next iteration
\* without sleeping.
SelectDefaultNoSleep ==
  /\ opc = "select"
  /\ variant = "context"
  /\ ~crashed
  /\ ~ctxDone
  /\ opc' = "loop"
  /\ i' = i + 1
  /\ UNCHANGED <<variant, numChecks, sentLog, sleeps, repVars, wg, results, closed,
                 testResult, ppc, resp, ctxDone, stopBuf, crashed, histVars>>

\* context variant, default: go on to time.Sleep(interval)
SelectDefault ==
  /\ opc = "select"
  /\ variant = "context"
  /\ ~crashed
  /\ ~ctxDone
  /\ opc' = "sleep"
  /\ UNCHANGED <<variant, numChecks, sentLog, sleeps, repVars, i, wg, results, closed, testResult, ppc, resp,
                 ctxDone, stopBuf, crashed, histVars>>

\* time.Sleep(interval) ends.  In the context variant the iteration ends with it;
\* in the signal variant the select on stop follows.
SleepEnds ==
  /\ opc = "sleep"
  /\ ~crashed
  /\ IF variant = "context"
       THEN i' = i + 1 /\ opc' = "loop"
       ELSE i' = i /\ opc' = "select"
  /\ sleeps' = sleeps + 1
  /\ UNCHANGED <<variant, numChecks, sentLog, repVars, wg, results, closed, testResult, ppc, resp,
                 ctxDone, stopBuf, crashed, histVars>>

\* signal variant, case <-stop: the signal is received
StopReceived ==
  /\ opc = "select"
  /\ variant = "signal"
  /\ ~crashed
  /\ stopBuf = 1
  /\ stopBuf' = 0
  /\ opc' = "stopclose"
  /\ observed' = TRUE
  /\ UNCHANGED <<variant, numChecks, sentLog, sleeps, repVars, i, wg, results, closed,
                 testResult, ppc, resp, ctxDone, crashed, launchCancelled, retCancelled,
                 obsAllWritten>>

\* signal variant, default: next iteration
StopDefault ==
  /\ opc = "select"
  /\ variant = "signal"
  /\ ~crashed
  /\ stopBuf = 0
  /\ i' = i + 1
  /\ opc' = "loop"
  /\ UNCHANGED <<variant, numChecks, sentLog, sleeps, repVars, wg, results, closed, testResult, ppc, resp,
                 ctxDone, stopBuf, crashed, histVars>>

\* signal variant, stop branch: close(results)
StopClose ==
  /\ opc = "stopclose"
  /\ ~crashed
  /\ closed' = TRUE
  /\ opc' = "stopwait"
  /\ UNCHANGED <<variant, numChecks, sentLog, sleeps, repVars, i, wg, results, testResult, ppc, resp,
                 ctxDone, stopBuf, crashed, histVars>>

\* signal variant, stop branch: wg.Wait(); return
StopWait ==
  /\ opc = "stopwait"
  /\ ~crashed
  /\ wg = 0
  /\ opc' = "done"
  /\ UNCHANGED <<variant, numChecks, sentLog, sleeps, repVars, i, wg, results, closed, testResult, ppc, resp,
                 ctxDone, stopBuf, crashed, histVars>>

\* Mutant of Wait: the orchestrator goes on without waiting for the probes.
WaitNoBarrier ==
  /\ opc = "wait"
  /\ ~crashed
  /\ opc' = "close"
  /\ UNCHANGED <<variant, numChecks, sentLog, sleeps, repVars, i, wg, results, closed,
                 testResult, ppc, resp, ctxDone, stopBuf, crashed, histVars>>

\* Mutant of Wait: after the barrier the orchestrator drains without closing.
WaitSkipClose ==
  /\ opc = "wait"
  /\ ~crashed
  /\ wg = 0
  /\ opc' = "collect"
  /\ UNCHANGED <<variant, numChecks, sentLog, sleeps, repVars, i, wg, results, closed,
                 testResult, ppc, resp, ctxDone, stopBuf, crashed, histVars>>

\* wg.Wait() returns
Wait ==
  /\ opc = "wait"
  /\ ~crashed
  /\ wg = 0
  /\ opc' = "close"
  /\ UNCHANGED <<variant, numChecks, sentLog, sleeps, repVars, i, wg, results, closed, testResult, ppc, resp,
                 ctxDone, stopBuf, crashed, histVars>>

\* close(results)
Close ==
  /\ opc = "close"
  /\ ~crashed
  /\ closed' = TRUE
  /\ opc' = "collect"
  /\ UNCHANGED <<variant, numChecks, sentLog, sleeps, repVars, i, wg, results, testResult, ppc, resp,
                 ctxDone, stopBuf, crashed, histVars>>

\* The drain loop over the closed channel.  The context variant then returns the
\* TestResult to main, which reports; the signal variant reports inside runTests.
Collect ==
  /\ opc = "collect"
  /\ ~crashed
  /\ closed
  /\ testResult' = collectResults(results)
  /\ results' = <<>>
  /\ opc' = IF variant = "context" THEN "done" ELSE "report"
  /\ rpc' = "percent"
  /\ UNCHANGED <<variant, numChecks, sentLog, sleeps, report, i, wg, closed, ppc, resp,
                 ctxDone, stopBuf, crashed, histVars>>

----------------------------------------------------------------------------
\* The reporting stage: the tail of runTests (signal variant), the tail of main
\* (context variant)

\* successfulCount: the number of results with Success set
SuccessfulCount(tr) == Cardinality({k \in 1..Len(tr) : tr[k].Success})

\* The divisor of the percentage: numChecks in the signal variant,
\* len(testResult.Results) in the context variant.
Divisor(v, n, tr) == IF v = "signal" THEN n ELSE Len(tr)

\* float64(c) / float64(d) * 100 as %.2f prints it, in hundredths of a percent,
\* rounded to nearest; 0 stands in when the quotient is NaN (d = 0, c = 0).
Hundredths(c, d) == IF d = 0 THEN 0 ELSE (2 * 10000 * c + d) \div (2 * d)

\* json.Marshal of the TestResult: the list of success flags.
Marshal(tr) == [k \in 1..Len(tr) |-> tr[k].Success]

\* main returns: the process ends; in the context variant the deferred cancel() runs.
ExitMain ==
  /\ rpc' = "exit"
  /\ opc' = "done"
  /\ ctxDone' = (ctxDone \/ variant = "context")

\* The percentage is computed and printed.
Percentage ==
  /\ rpc = "percent"
  /\ ~crashed
  /\ LET c == SuccessfulCount(testResult)
         d == Divisor(variant, numChecks, testResult)
     IN report' = [report EXCEPT !.printed = TRUE, !.divisor = d, !.nan = (d = 0),
                                 !.hundredths = Hundredths(c, d)]
  /\ rpc' = "marshal"
  /\ UNCHANGED <<variant, numChecks, sentLog, sleeps, orchVars, results, ppc, resp,
                 ctxDone, stopBuf, crashed, histVars>>

\* json.Marshal succeeds.
MarshalOK ==
  /\ rpc = "marshal"
  /\ ~crashed
  /\ rpc' = "write"
  /\ UNCHANGED <<variant, numChecks, sentLog, sleeps, report, orchVars, results, ppc,
                 resp, ctxDone, stopBuf, crashed, histVars>>

\* Mutant of MarshalFail: the error is logged but the function goes on to write.
MarshalFailContinues ==
  /\ rpc = "marshal"
  /\ ~crashed
  /\ report' = [report EXCEPT !.logs = @ \cup {"marshal error"}]
  /\ rpc' = "write"
  /\ UNCHANGED <<variant, numChecks, sentLog, sleeps, orchVars, results, ppc, resp,
                 ctxDone, stopBuf, crashed, histVars>>

\* json.Marshal fails: the error is logged and the function returns.
MarshalFail ==
  /\ rpc = "marshal"
  /\ ~crashed
  /\ report' = [report EXCEPT !.logs = @ \cup {"marshal error"}]
  /\ ExitMain
  /\ UNCHANGED <<variant, numChecks, sentLog, sleeps, i, wg, closed, testResult, results,
                 ppc, resp, stopBuf, crashed, histVars>>

\* ioutil.WriteFile succeeds: the file holds the serialized TestResult and the
\* success line is logged.
WriteOK ==
  /\ rpc = "write"
  /\ ~crashed
  /\ report' = [report EXCEPT !.writeAttempted = TRUE, !.written = TRUE,
                              !.file = Marshal(testResult), !.logs = @ \cup {"saved"}]
  /\ ExitMain
  /\ UNCHANGED <<variant, numChecks, sentLog, sleeps, i, wg, closed, testResult, results,
                 ppc, resp, stopBuf, crashed, histVars>>

\* ioutil.WriteFile fails: the error is logged and the function returns.
WriteFail ==
  /\ rpc = "write"
  /\ ~crashed
  /\ report' = [report EXCEPT !.writeAttempted = TRUE, !.logs = @ \cup {"write error"}]
  /\ ExitMain
  /\ UNCHANGED <<variant, numChecks, sentLog, sleeps, i, wg, closed, testResult, results,
                 ppc, resp, stopBuf, crashed, histVars>>

----------------------------------------------------------------------------
\* A probe: performCheck

\* http.Get returns r.  A transport error goes straight to the send; a response
\* goes to the send (signal variant) or to the select on ctx.Done() (context variant).
NetReturn(p, r) ==
  /\ ppc[p] = "get"
  /\ ~crashed
  /\ resp' = [resp EXCEPT ![p] = r]
  /\ retCancelled' = [retCancelled EXCEPT ![p] = ctxDone]
  /\ ppc' = [ppc EXCEPT ![p] = IF r.err \/ variant = "signal" THEN "send" ELSE "check"]
  /\ UNCHANGED <<variant, numChecks, sentLog, sleeps, repVars, orchVars, results, ctxDone, stopBuf, crashed,
                 launchCancelled, observed, obsAllWritten>>

\* Mutant of ProbeCheck: the discarding return leaves without wg.Done().
ProbeCheckNoDone(p) ==
  /\ ppc[p] = "check"
  /\ ~crashed
  /\ ppc' = [ppc EXCEPT ![p] = IF ctxDone THEN "done" ELSE "send"]
  /\ UNCHANGED <<variant, numChecks, sentLog, sleeps, repVars, orchVars, results, resp,
                 ctxDone, stopBuf, crashed, histVars>>

\* context variant: select { case <-ctx.Done(): Body.Close(); return; default: send }
ProbeCheck(p) ==
  /\ ppc[p] = "check"
  /\ ~crashed
  /\ ppc' = [ppc EXCEPT ![p] = IF ctxDone THEN "deferred" ELSE "send"]
  /\ UNCHANGED <<variant, numChecks, sentLog, sleeps, repVars, orchVars, results, resp, ctxDone, stopBuf, crashed,
                 histVars>>

\* results <- CheckResult{...} on an open channel with room in its buffer
ProbeSend(p) ==
  /\ ppc[p] = "send"
  /\ ~crashed
  /\ ~closed
  /\ Len(results) < ChanCap(numChecks)
  /\ results' = Append(results, ResultOf(p, resp[p]))
  /\ sentLog' = Append(sentLog, ResultOf(p, resp[p]))
  /\ ppc' = [ppc EXCEPT ![p] = "deferred"]
  /\ UNCHANGED <<variant, numChecks, sleeps, repVars, orchVars, resp, ctxDone, stopBuf, crashed, histVars>>

\* results <- CheckResult{...} on a closed channel: the goroutine panics, its
\* deferred wg.Done() runs, and the process is about to die.
ProbePanic(p) ==
  /\ ppc[p] = "send"
  /\ ~crashed
  /\ closed
  /\ ppc' = [ppc EXCEPT ![p] = "panicked"]
  /\ wg' = wg - 1
  /\ UNCHANGED <<variant, numChecks, sentLog, sleeps, repVars, opc, i, closed, testResult, results, resp, ctxDone,
                 stopBuf, crashed, histVars>>

\* defer wg.Done() on a normal return
ProbeDone(p) ==
  /\ ppc[p] = "deferred"
  /\ ~crashed
  /\ wg' = wg - 1
  /\ ppc' = [ppc EXCEPT ![p] = "done"]
  /\ UNCHANGED <<variant, numChecks, sentLog, sleeps, repVars, opc, i, closed, testResult, results, resp, ctxDone,
                 stopBuf, crashed, histVars>>

\* The runtime ends the process after an unrecovered panic.
Crash ==
  /\ ~crashed
  /\ \E p \in Probes : ppc[p] = "panicked"
  /\ crashed' = TRUE
  /\ UNCHANGED <<variant, numChecks, sentLog, sleeps, repVars, orchVars, results, ppc, resp, ctxDone, stopBuf,
                 histVars>>

----------------------------------------------------------------------------
Orchestrator ==
  \/ Launch \/ LoopExit \/ ObserveCancel \/ SelectDefault \/ SleepEnds
  \/ StopReceived \/ StopDefault \/ StopClose \/ StopWait
  \/ Wait \/ Close \/ Collect
  \/ Percentage \/ MarshalOK \/ MarshalFail \/ WriteOK \/ WriteFail

ProbeStep(p) ==
  \/ \E r \in Responses : NetReturn(p, r)
  \/ ProbeCheck(p) \/ ProbeSend(p) \/ ProbePanic(p) \/ ProbeDone(p)

Next ==
  \/ NotifyStop
  \/ MainSignalHandler
  \/ Launch
  \/ LoopExit
  \/ ObserveCancel
  \/ SelectDefault
  \/ SleepEnds
  \/ StopReceived
  \/ StopDefault
  \/ StopClose
  \/ StopWait
  \/ Wait
  \/ Close
  \/ Collect
  \/ Percentage
  \/ MarshalOK
  \/ MarshalFail
  \/ WriteOK
  \/ WriteFail
  \/ \E p \in Probes : \E r \in Responses : NetReturn(p, r)
  \/ \E p \in Probes : ProbeCheck(p)
  \/ \E p \in Probes : ProbeSend(p)
  \/ \E p \in Probes : ProbePanic(p)
  \/ \E p \in Probes : ProbeDone(p)
  \/ Crash

Spec == Init /\ [][Next]_vars

\* Every goroutine that can take a step eventually does, and every http.Get
\* eventually returns; signals are under no obligation to arrive.
LiveInit == Init /\ numChecks <= MaxLiveChecks

FairSpec ==
  /\ LiveInit
  /\ [][Next]_vars
  /\ WF_vars(Orchestrator)
  /\ \A p \in Probes : WF_vars(ProbeStep(p))
  /\ WF_vars(Crash)

TypeOK ==
  /\ variant \in Variants
  /\ numChecks \in 0..MaxChecks
  /\ opc \in {"loop", "select", "sleep", "wait", "close", "collect", "stopclose",
              "stopwait", "report", "done"}
  /\ rpc \in {"none", "percent", "marshal", "write", "exit"}
  /\ sleeps \in 0..MaxChecks
  /\ i \in 0..MaxChecks
  /\ wg \in 0..MaxChecks
  /\ ppc \in [Probes -> {"idle", "get", "check", "send", "deferred", "done", "panicked"}]
  /\ stopBuf \in 0..1
  /\ Len(results) <= numChecks

----------------------------------------------------------------------------
\* Properties

\* Probe p has left performCheck normally: it sent or discarded, and ran wg.Done().
Finished(p) == ppc[p] = "done"

\* Number of entries of sequence s that come from probe p.
Count(s, p) == Cardinality({k \in 1..Len(s) : s[k].probe = p})

\* C1: in the context variant no probe sends on the results channel after it
\* has been closed: no probe panics on a closed channel, and once the channel
\* is closed no probe is still ahead of its send.
C1_NoSendAfterClose ==
  variant = "context" =>
    \A p \in Probes : /\ ppc[p] # "panicked"
                      /\ (closed => ppc[p] \notin {"get", "check", "send"})

\* C1 witness: a cancelled context run closed the channel after one probe sent
\* its result and another one discarded its result.
C1_Witness ==
  /\ variant = "context" /\ closed /\ observed
  /\ \E p \in Probes : Wrote(p)
  /\ \E p \in Probes : ppc[p] = "done" /\ ~Wrote(p)

\* C2: in the signal variant the results channel is closed only once every
\* launched probe has finished.
C2_ClosedOnlyAfterBarrier ==
  (variant = "signal" /\ closed) => \A p \in Launched : Finished(p)

\* C3: in the context variant, a run that returns without cancellation having
\* fired returns exactly numChecks results.
C3_AllResultsWithoutCancel ==
  (variant = "context" /\ opc = "done" /\ ~ctxDone) => Len(testResult) = numChecks

\* C3 witness: an uncancelled run of at least two probes has returned, one probe
\* having met a transport error and another a 200 response.
C3_Witness ==
  /\ variant = "context" /\ opc = "done" /\ ~ctxDone /\ numChecks >= 2
  /\ \E p \in Probes : resp[p].err
  /\ \E p \in Probes : ~resp[p].err /\ resp[p].status = StatusOK

\* C4: when cancellation had fired before the first probe was launched, the
\* returned TestResult is empty.
C4_CancelledBeforeFirstLaunchYieldsNone ==
  (variant = "context" /\ opc = "done" /\ numChecks >= 1 /\ launchCancelled[1])
    => Len(testResult) = 0

\* C5: in the context variant the orchestrator eventually returns from runTests.
C5_EventuallyDone == (variant = "context") ~> (opc = "done")

\* C5 witness: a context run has returned after taking the cancellation branch
\* while a probe was still in flight at that moment.
C5_Witness ==
  /\ variant = "context" /\ opc = "done" /\ observed /\ ~obsAllWritten

\* C6: whenever runTests has returned, every launched probe has finished
\* (sent or discarded its result).
C6_ReturnedImpliesAllFinished ==
  opc = "done" => \A p \in Launched : Finished(p)

\* C7: no probe is launched in a state where cancellation has already fired.
C7_NoLaunchAfterCancel == \A p \in Probes : ~launchCancelled[p]

\* C8: a probe whose network call returned after cancellation had fired never
\* writes a result.
C8_NoWriteAfterCancelledReturn == \A p \in Probes : retCancelled[p] => ~Wrote(p)

C10_SuccessIffStatus200 ==
  \A k \in 1..Len(testResult) :
    testResult[k].Success <=>
      (~resp[testResult[k].probe].err /\ resp[testResult[k].probe].status = 200)

\* C10 witness: a returned TestResult holds a success, a failure from a
\* transport error and a failure from a non-200 response.
C10_Witness ==
  /\ variant = "context" /\ opc = "done"
  /\ \E k \in 1..Len(testResult) : testResult[k].Success
  /\ \E k \in 1..Len(testResult) : resp[testResult[k].probe].err
  /\ \E k \in 1..Len(testResult) :
       ~resp[testResult[k].probe].err /\ resp[testResult[k].probe].status = 500

----------------------------------------------------------------------------
\* Properties of the second group

\* Everything written so far: the collected results followed by the buffered ones.
Written == testResult \o results

IsPrefix(a, b) == Len(a) <= Len(b) /\ SubSeq(b, 1, Len(a)) = a

\* The phase of a run: Idle before the first launch, Launching while the loop
\* runs and until the barrier of the normal path is passed, Cancelling while the
\* cancellation branch waits for the probes, Draining from the close of the
\* channel to the end of the drain loop, Done once runTests has returned.
Phase ==
  IF opc = "done" \/ opc = "report" THEN "Done"
  ELSE IF opc \in {"close", "collect", "stopclose", "stopwait"} THEN "Draining"
  ELSE IF opc = "wait" /\ observed THEN "Cancelling"
  ELSE IF opc = "loop" /\ i = 0 /\ Launched = {} THEN "Idle"
  ELSE "Launching"

\* Probes that were launched and have not yet run wg.Done().
Unfinished == {p \in Launched : ppc[p] \notin {"done", "panicked"}}

\* C11: in the context variant the results in the channel plus the collected ones
\* never exceed numChecks, and the returned TestResult holds exactly the results
\* the probes sent, each once.
C11_ResultsAreWhatWasSent ==
  variant = "context" =>
    /\ Len(results) + Len(testResult) <= numChecks
    /\ opc = "done" =>
         /\ Len(testResult) = Len(sentLog)
         /\ \A k \in 1..Len(testResult) : \E j \in 1..Len(sentLog) : sentLog[j] = testResult[k]
         /\ \A p \in Probes : Count(testResult, p) = Count(sentLog, p) /\ Count(sentLog, p) <= 1

\* C11 witness: a cancelled run returned fewer results than it launched probes,
\* one probe having sent and another having discarded.
C11_Witness ==
  /\ variant = "context" /\ opc = "done" /\ rpc = "percent"
  /\ Len(sentLog) >= 1 /\ Len(testResult) < Cardinality(Launched)

\* C12: in the signal variant a run that took the stop branch still reports the
\* success rate and saves the results (or logs why it could not) before returning.
C12_StopStillReports ==
  (variant = "signal" /\ opc = "done" /\ observed) =>
    /\ report.printed
    /\ report.logs # {}

\* C13: the percentage is never computed with a zero divisor.
C13_PercentageGuarded == report.printed => report.divisor # 0

\* C14: a context run moves through Idle, Launching, Cancelling, Draining, Done
\* in that order; Cancelling is entered from Launching with the cancellation
\* fired, Draining is entered with no probe in flight, nothing is launched from
\* Cancelling on, and Done is terminal with the TestResult fixed.
C14_PhaseOrder ==
  [][variant = "context" =>
      /\ Phase' # Phase =>
           <<Phase, Phase'>> \in {<<"Idle", "Launching">>, <<"Launching", "Cancelling">>,
                                  <<"Launching", "Draining">>, <<"Cancelling", "Draining">>,
                                  <<"Draining", "Done">>}
      /\ (Phase' = "Cancelling" /\ Phase # "Cancelling") => (Phase = "Launching" /\ ctxDone)
      /\ (Phase' = "Draining" /\ Phase # "Draining") =>
           (wg = 0 /\ \A p \in Launched : ppc[p] = "done")
      /\ Phase \in {"Cancelling", "Draining", "Done"} => Launched' = Launched
      /\ Phase = "Done" => (Phase' = "Done" /\ testResult' = testResult)]_vars

\* C14 witness: a context run is Done after passing through Cancelling, with a
\* result collected.
C14_Witness ==
  /\ variant = "context" /\ Phase = "Done" /\ observed /\ Len(testResult) >= 1
  /\ rpc = "marshal"

\* C15: a launch step launches exactly the next probe in index order, within
\* numChecks, and one interval wait has ended for every probe launched before.
C15_LaunchesSpacedInOrder ==
  [][Launched' # Launched =>
      /\ Launched = 1..Cardinality(Launched)
      /\ Launched' = Launched \cup {Cardinality(Launched) + 1}
      /\ Cardinality(Launched) + 1 <= numChecks
      /\ sleeps = Cardinality(Launched)]_vars

\* C15 witness: a third probe has been launched after two interval waits.
C15_Witness == Cardinality(Launched) >= 3 /\ sleeps = 2 /\ opc # "loop"

\* C16: once the cancellation has fired, no step removes or alters a result that
\* is in the channel or in the TestResult; this holds of the cancelling step too.
C16_CancelKeepsWritten ==
  [][(variant = "context" /\ ctxDone') => IsPrefix(Written, Written')]_vars

\* C16 witness: the run was cancelled with one probe in flight (it discarded) and
\* has returned the result another probe had written.
C16_Witness ==
  /\ variant = "context" /\ opc = "done" /\ rpc = "write" /\ ctxDone
  /\ \E p \in Probes : ppc[p] = "done" /\ retCancelled[p] /\ ~Wrote(p)
  /\ \E p \in Probes : ~retCancelled[p] /\ Wrote(p)

\* C17: a serialization failure is logged and ends the run with no write
\* attempted; a write failure is logged and ends the run without the success
\* line; neither crashes the process, and the reporting stage leaves the
\* TestResult as it is.
C17_ReportingFailures ==
  [][/\ (rpc = "marshal" /\ rpc' = "exit") => "marshal error" \in report'.logs
     /\ (rpc = "write" /\ rpc' = "exit" /\ ~report'.written) => "write error" \in report'.logs
     /\ "marshal error" \in report'.logs =>
          (~report'.writeAttempted /\ rpc' = "exit" /\ opc' = "done" /\ ~crashed')
     /\ "write error" \in report'.logs =>
          ("saved" \notin report'.logs /\ rpc' = "exit" /\ opc' = "done" /\ ~crashed')
     /\ rpc # "none" => testResult' = testResult]_vars

\* C17 witness: the run ended on a serialization failure with results collected.
C17_Witness ==
  /\ "marshal error" \in report.logs /\ rpc = "exit" /\ Len(testResult) >= 2

\* C18: a probe that is about to send on the open channel finds room in the
\* buffer, and the buffer never holds more than its capacity.
C18_SendNeverBlocks ==
  /\ Len(results) <= ChanCap(numChecks)
  /\ \A p \in Probes : (ppc[p] = "send" /\ ~closed) => Len(results) < ChanCap(numChecks)

\* C18 witness: the last probe is about to send while all the others have
\* already sent and nothing has been received.
C18_Witness ==
  /\ variant = "context" /\ numChecks >= 2 /\ ~closed
  /\ Len(results) = numChecks - 1
  /\ \E p \in Probes : ppc[p] = "send"

\* C19: the WaitGroup counter equals the number of launched probes that have
\* not yet run wg.Done(), and is never negative.
C19_WaitGroupCountsUnfinished ==
  wg >= 0 /\ wg = Cardinality(Unfinished)

\* C19 witness: the counter is back to zero after one probe sent on the error
\* path and another discarded its result.
C19_Witness ==
  /\ variant = "context" /\ wg = 0 /\ opc = "wait"
  /\ \E p \in Probes : ppc[p] = "done" /\ resp[p].err /\ Wrote(p)
  /\ \E p \in Probes : ppc[p] = "done" /\ ~resp[p].err /\ ~Wrote(p)

\* C20: in the context variant the channel is closed exactly once on every
\* path: a close never hits a closed channel, the channel never reopens, and
\* the drain loop and the return find it closed.
C20_ClosedExactlyOnce ==
  [][variant = "context" =>
      /\ closed => closed'
      /\ (opc \in {"close", "stopclose"} /\ opc' # opc) => (~closed /\ closed')
      /\ opc' \in {"collect", "done"} => closed']_vars

\* C20 witness: the drain loop is about to run on the channel closed by the
\* cancellation branch.
C20_Witness ==
  /\ variant = "context" /\ opc = "collect" /\ closed /\ observed /\ Len(results) >= 1
====
